---- MODULE Spec2Model ----
(***************************************************************************)
(* Model of icd10_lookup_app.py: the dataset normalisation                 *)
(* (load_icd10_data), the sidebar filters (render_sidebar, apply_filters), *)
(* the pagination of main and the AI explanation helper                    *)
(* (call_perplexity_icd_explanation).                                      *)
(*                                                                         *)
(* A Python string is a sequence of one-character strings; NaN and None    *)
(* are sentinels that are no such sequence.                                *)
(***************************************************************************)
EXTENDS Integers, Sequences, FiniteSets, TLC

VARIABLES pc, df_raw, df, params, df_filtered, total_pages, page, page_df, view, ai

vars == <<pc, df_raw, df, params, df_filtered, total_pages, page, page_df, view, ai>>

----------------------------------------------------------------------------
(* Python and pandas values *)

\* pandas' missing value (numpy.nan) in an object column
NaN == <<"NaN">>

\* Python's None
None == <<"None">>

Min(a, b) == IF a < b THEN a ELSE b

Max(a, b) == IF a > b THEN a ELSE b

UpperLetters == <<"A", "B", "C", "D", "E", "F", "G", "H", "I", "J", "K", "L", "M", "N", "O", "P", "Q", "R", "S", "T", "U", "V", "W", "X", "Y", "Z">>

LowerLetters == <<"a", "b", "c", "d", "e", "f", "g", "h", "i", "j", "k", "l", "m", "n", "o", "p", "q", "r", "s", "t", "u", "v", "w", "x", "y", "z">>

Digits == <<"0", "1", "2", "3", "4", "5", "6", "7", "8", "9">>

\* str.lower() on one character
LowerChar(c) ==
    IF \E i \in 1..Len(UpperLetters) : UpperLetters[i] = c
    THEN LowerLetters[CHOOSE i \in 1..Len(UpperLetters) : UpperLetters[i] = c]
    ELSE c

\* str.lower()
Lower(s) == [i \in 1..Len(s) |-> LowerChar(s[i])]

RECURSIVE LStrip(_)
LStrip(s) == IF Len(s) > 0 /\ s[1] = " " THEN LStrip(Tail(s)) ELSE s

RECURSIVE RStrip(_)
RStrip(s) ==
    IF Len(s) > 0 /\ s[Len(s)] = " " THEN RStrip(SubSeq(s, 1, Len(s) - 1)) ELSE s

\* str.strip(): leading and trailing whitespace removed
Strip(s) == RStrip(LStrip(s))

\* str.startswith(prefix)
StartsWith(s, prefix) ==
    /\ Len(prefix) <= Len(s)
    /\ SubSeq(s, 1, Len(prefix)) = prefix

\* Python's `sub in s` on strings
IsSubstring(sub, s) ==
    \E i \in 1..(Len(s) - Len(sub) + 1) : SubSeq(s, i, i + Len(sub) - 1) = sub

\* re.search(pat, s) for a pattern of literal characters and ".", which
\* matches any character: Series.str.contains takes its argument as a regex
RegexSearch(pat, s) ==
    \E i \in 1..(Len(s) - Len(pat) + 1) :
        \A k \in 1..Len(pat) : pat[k] = "." \/ pat[k] = s[i + k - 1]

\* Series.astype(str) on one cell: a missing cell becomes the text "nan"
AsStr(cell) == IF cell = NaN THEN <<"n", "a", "n">> ELSE cell

\* str(n) for a natural number
RECURSIVE IntStr(_)
IntStr(n) == IF n < 10 THEN <<Digits[n + 1]>> ELSE IntStr(n \div 10) \o <<Digits[(n % 10) + 1]>>

----------------------------------------------------------------------------
(* _find_column and load_icd10_data *)

\* the keys of `lowered = {c.lower(): c for c in df.columns}`, in insertion
\* order: a lower-cased name keeps the place of its first header
RECURSIVE LoweredKeys(_)
LoweredKeys(headers) ==
    IF Len(headers) = 0 THEN <<>>
    ELSE LET init == LoweredKeys(SubSeq(headers, 1, Len(headers) - 1))
             low  == Lower(headers[Len(headers)])
         IN  IF \E i \in 1..Len(init) : init[i] = low THEN init ELSE Append(init, low)

\* lowered[low]: the last header with that lower-cased name wins
LoweredValue(headers, low) ==
    headers[CHOOSE i \in 1..Len(headers) :
                /\ Lower(headers[i]) = low
                /\ \A j \in (i + 1)..Len(headers) : Lower(headers[j]) # low]

RECURSIVE FindFrom(_, _, _)
FindFrom(headers, keywords, k) ==
    IF k > Len(keywords) THEN None
    ELSE LET key  == Lower(keywords[k])
             keys == LoweredKeys(headers)
             hits == {i \in 1..Len(keys) : IsSubstring(key, keys[i])}
         IN  IF hits # {}
             THEN LoweredValue(headers, keys[CHOOSE i \in hits : \A j \in hits : i <= j])
             ELSE FindFrom(headers, keywords, k + 1)

\* _find_column(df, keywords): keywords in order, and for each the lowered
\* names in order; None when no name holds any keyword
find_column(headers, keywords) == FindFrom(headers, keywords, 1)

\* mutant: "icd" taken as a second keyword of the code column
code_keywords_with_icd == <<<<"c", "o", "d", "e">>, <<"i", "c", "d">>>>

code_keywords == <<<<"c", "o", "d", "e">>>>

short_keywords == <<<<"s", "h", "o", "r", "t", " ", "d", "e", "s", "c", "r", "i", "p", "t", "i", "o", "n">>,
                    <<"s", "h", "o", "r", "t", " ", "d", "e", "s", "c">>>>

long_keywords == <<<<"l", "o", "n", "g", " ", "d", "e", "s", "c", "r", "i", "p", "t", "i", "o", "n">>,
                   <<"l", "o", "n", "g", " ", "d", "e", "s", "c">>>>

chapter_keywords == <<<<"c", "h", "a", "p", "t", "e", "r">>>>

status_keywords == <<<<"s", "t", "a", "t", "u", "s">>,
                     <<"i", "n", "c", "l", "u", "d", "e", "d">>,
                     <<"e", "x", "c", "l", "u", "d", "e", "d">>>>

\* df_raw[col].astype(str).str.strip()
RawColumn(raw, col) ==
    LET j == CHOOSE j \in 1..Len(raw.headers) : raw.headers[j] = col
    IN  [i \in 1..Len(raw.rows) |-> Strip(AsStr(raw.rows[i][j]))]

\* the five columns resolved by load_icd10_data, in assignment order
ResolvedColumns(raw) ==
    << find_column(raw.headers, code_keywords),
       find_column(raw.headers, short_keywords),
       find_column(raw.headers, long_keywords),
       find_column(raw.headers, chapter_keywords),
       find_column(raw.headers, status_keywords) >>

\* Rows of the frame built by the assignments df["code"] = ... to
\* df["status"] = ...: on the empty frame a scalar "" makes a column of no
\* rows; the first Series with rows sets the index, turning the columns
\* assigned before it into NaN; a scalar assigned later is broadcast.
FrameLength(raw) ==
    IF \E k \in 1..5 : ResolvedColumns(raw)[k] # None THEN Len(raw.rows) ELSE 0

FrameCell(raw, k, i) ==
    LET cols == ResolvedColumns(raw)
    IN  IF cols[k] # None THEN RawColumn(raw, cols[k])[i]
        ELSE IF \E m \in 1..(k - 1) : cols[m] # None THEN <<>>
        ELSE NaN

\* Series.str.extract(r"^([A-Z]\\d{2})"): in the raw literal the regex reads
\* an upper-case letter, a backslash and two letters "d"
ExtractCategory(code) ==
    IF code = NaN THEN NaN
    ELSE IF /\ Len(code) >= 4
            /\ \E i \in 1..Len(UpperLetters) : UpperLetters[i] = code[1]
            /\ code[2] = "\\"
            /\ code[3] = "d"
            /\ code[4] = "d"
         THEN SubSeq(code, 1, 4)
         ELSE NaN

\* code + " " + short_description + " " + long_description + " " + chapter,
\* lower-cased; NaN when a part is NaN
SearchBlob(code, short, long, chapter) ==
    IF code = NaN \/ short = NaN \/ long = NaN \/ chapter = NaN THEN NaN
    ELSE Lower(code \o <<" ">> \o short \o <<" ">> \o long \o <<" ">> \o chapter)

\* mutant: without a long-description column the short description is used
NormalizedRowLongFallback(raw, i) ==
    LET code == FrameCell(raw, 1, i)
        short == FrameCell(raw, 2, i)
        long == IF ResolvedColumns(raw)[3] = None THEN short ELSE FrameCell(raw, 3, i)
        chapter == FrameCell(raw, 4, i)
    IN  [ code |-> code,
          short_description |-> short,
          long_description |-> long,
          chapter |-> chapter,
          status |-> FrameCell(raw, 5, i),
          category |-> ExtractCategory(code),
          search_blob |-> SearchBlob(code, short, long, chapter) ]

NormalizedRow(raw, i) ==
    LET code == FrameCell(raw, 1, i)
        short == FrameCell(raw, 2, i)
        long == FrameCell(raw, 3, i)
        chapter == FrameCell(raw, 4, i)
    IN  [ code |-> code,
          short_description |-> short,
          long_description |-> long,
          chapter |-> chapter,
          status |-> FrameCell(raw, 5, i),
          category |-> ExtractCategory(code),
          search_blob |-> SearchBlob(code, short, long, chapter) ]

\* df.dropna(subset=["code"]): the rows whose code is NaN are dropped
RECURSIVE DropNaCode(_)
DropNaCode(rows) ==
    IF Len(rows) = 0 THEN <<>>
    ELSE IF rows[1].code = NaN THEN DropNaCode(Tail(rows))
    ELSE <<rows[1]>> \o DropNaCode(Tail(rows))

load_icd10_data(raw) ==
    DropNaCode([i \in 1..FrameLength(raw) |-> NormalizedRow(raw, i)])

----------------------------------------------------------------------------
(* render_sidebar, apply_filters, render_related_codes and main's pagination *)

str_All == <<"A", "l", "l">>

\* st.sidebar.slider("Codes per page", 10, 50, 30, step=5)
MinPageSize == 10

MaxPageSize == 50

DefaultPageSize == 30

PageSizeStep == 5

SliderValues ==
    {n \in MinPageSize..MaxPageSize : (n - MinPageSize) % PageSizeStep = 0}

\* the options of the "Status filter" select box: shown when the table has a
\* status that is not NaN
StatusOptions(table) ==
    {str_All} \cup {table[i].status : i \in {j \in 1..Len(table) : table[j].status # NaN}}

\* mutant: the text is searched in the code alone
BlobContainsCodeOnly(row, query) == RegexSearch(query, Lower(row.code))

\* Series.str.contains(query, na=False)
BlobContains(row, query) ==
    row.search_blob # NaN /\ RegexSearch(query, row.search_blob)

\* mutant: the code prefix is not applied
PrefixFilterOff(table, prefix) == table

PrefixFilter(table, prefix) ==
    IF prefix # str_All
    THEN SelectSeq(table, LAMBDA r : StartsWith(r.code, prefix))
    ELSE table

StatusFilter(table, status) ==
    IF status # str_All
    THEN SelectSeq(table, LAMBDA r : r.status = status)
    ELSE table

\* mutant: the records whose code is the text come first
TextFilterExactFirst(table, text) ==
    LET query == Lower(Strip(text))
        hits == SelectSeq(table, LAMBDA r : BlobContains(r, query))
    IN  IF Len(query) > 0
        THEN SelectSeq(hits, LAMBDA r : Lower(r.code) = query)
             \o SelectSeq(hits, LAMBDA r : Lower(r.code) # query)
        ELSE table

\* mutant: the text is not trimmed
TextFilterNoStrip(table, text) ==
    LET query == Lower(text)
    IN  IF Len(query) > 0
        THEN SelectSeq(table, LAMBDA r : BlobContains(r, query))
        ELSE table

TextFilter(table, text) ==
    LET query == Lower(Strip(text))
    IN  IF Len(query) > 0
        THEN SelectSeq(table, LAMBDA r : BlobContains(r, query))
        ELSE table

\* apply_filters(df, params): code prefix, then status, then text
apply_filters(table, p) ==
    TextFilter(StatusFilter(PrefixFilter(table, p.code_prefix), p.status), p.query)

\* df_filtered.iloc[start:end] for 0 <= start <= end: a slice past the end
\* is cut, never an error
ILoc(table, start, end) == SubSeq(table, start + 1, Min(end, Len(table)))

\* mutant: one page more than the whole pages
TotalPagesPlusOne(n, page_size) == Max(1, (n \div page_size) + 1)

\* max(1, (len(df_filtered) + page_size - 1) // page_size)
TotalPages(n, page_size) == Max(1, (n + page_size - 1) \div page_size)

\* mutant: the page number taken as 0-based
PageSliceZeroBased(table, pg, page_size) ==
    ILoc(table, pg * page_size, pg * page_size + page_size)

PageSlice(table, pg, page_size) ==
    ILoc(table, (pg - 1) * page_size, (pg - 1) * page_size + page_size)

\* render_related_codes(df, category, current_code): the rows listed under a
\* card. `not category` is false of NaN, and NaN equals nothing, itself
\* included
related_codes(table, category, current_code) ==
    IF category # NaN /\ Len(category) = 0 THEN <<>>
    ELSE SelectSeq(table, LAMBDA r : /\ category # NaN
                                     /\ r.category # NaN
                                     /\ r.category = category
                                     /\ r.code # current_code)

----------------------------------------------------------------------------
(* call_perplexity_icd_explanation *)

\* an exception of st.secrets.get
Raises == <<"raise">>

\* get_pplx_api_key(): the environment variable, else the Streamlit secret;
\* a failing secrets lookup gives None
get_pplx_api_key(env) ==
    IF env.getenv # None /\ Len(env.getenv) > 0 THEN env.getenv
    ELSE IF env.secrets = Raises THEN None
    ELSE env.secrets

MsgNotConfigured ==
    <<"AI explanation is not configured. Please add PPLX_API_KEY to Streamlit secrets or environment.">>

MsgStatus(status) ==
    <<"AI error (status ">> \o IntStr(status) \o <<"). Please try again later.">>

MsgNoText == <<"AI did not return any text. Please try again later.">>

MsgException(e) == <<"AI error: ", e>>

Returned(text) == [raised |-> FALSE, exc |-> "", text |-> text]

Raised(e) == [raised |-> TRUE, exc |-> e, text |-> <<>>]

\* the body of the try block: requests.post, the status check, resp.json()
\* and the chain data.get("choices", [{}])[0].get("message", {})
\*                .get("content", "").strip()
TryBlock(response) ==
    IF response.kind = "exception" THEN Raised("ConnectionError")
    ELSE IF response.status # 200 THEN Returned(MsgStatus(response.status))
    ELSE LET body == response.body
             choices == IF body.choices = "missing" THEN "default" ELSE body.choices
             message == IF choices = "default" THEN "missing" ELSE body.message
             content == IF message = "missing" THEN "missing" ELSE body.content
             text == IF content = "missing" THEN <<>> ELSE Strip(body.text)
         IN  IF body.json = "invalid" THEN Raised("JSONDecodeError")
             ELSE IF body.json # "dict" THEN Raised("AttributeError")
             ELSE IF choices = "null" THEN Raised("TypeError")
             ELSE IF choices = "empty" THEN Raised("IndexError")
             ELSE IF choices = "nondict" THEN Raised("AttributeError")
             ELSE IF message = "null" THEN Raised("AttributeError")
             ELSE IF content = "null" THEN Raised("AttributeError")
             ELSE IF Len(text) = 0 THEN Returned(MsgNoText)
             ELSE Returned(text)

\* mutant: no exception is caught
ExceptNothing(outcome) == outcome

\* try: ... except Exception as e: return f"AI error: {e}"
ExceptException(outcome) ==
    IF outcome.raised THEN Returned(MsgException(outcome.exc)) ELSE outcome

call_perplexity_icd_explanation(row, env, response) ==
    LET api_key == get_pplx_api_key(env)
    IN  IF api_key = None \/ Len(api_key) = 0 THEN Returned(MsgNotConfigured)
        ELSE ExceptException(TryBlock(response))

----------------------------------------------------------------------------
(* The datasets and the user's inputs the model runs over *)

\* rows of a small dataset, columns of a dataset with few columns, rows of
\* the largest generated dataset
MaxRows == 2

MaxCols == 2

MaxBulk == 25

\* a header and the cells it holds: the code, another code, the short and the
\* long description, the chapter, the status
HeaderPool ==
    << [name |-> <<"C", "o", "d", "e">>, kind |-> "c"],
       [name |-> <<"C", "O", "D", "E">>, kind |-> "c2"],
       [name |-> <<"I", "C", "D", "1", "0", "C", "O", "D", "E">>, kind |-> "c"],
       [name |-> <<"I", "C", "D", "1", "0">>, kind |-> "c"],
       [name |-> <<"S", "h", "o", "r", "t", " ", "D", "e", "s", "c">>, kind |-> "s"],
       [name |-> <<"L", "o", "n", "g", " ", "D", "e", "s", "c">>, kind |-> "l"],
       [name |-> <<"N", "a", "m", "e">>, kind |-> "s"] >>

FullHeaders ==
    << [name |-> <<"C", "o", "d", "e">>, kind |-> "c"],
       [name |-> <<"S", "h", "o", "r", "t", " ", "D", "e", "s", "c">>, kind |-> "s"],
       [name |-> <<"L", "o", "n", "g", " ", "D", "e", "s", "c">>, kind |-> "l"],
       [name |-> <<"C", "h", "a", "p", "t", "e", "r">>, kind |-> "ch"],
       [name |-> <<"S", "t", "a", "t", "u", "s">>, kind |-> "st"] >>

c_E119 == <<"E", "1", "1", "9">>

c_E11 == <<"E", "1", "1">>

d_T2 == <<"T", "y", "p", "e", " ", "2", " ", "d", "i", "a", "b", "e", "t", "e", "s">>

d_T2long == <<"T", "y", "p", "e", " ", "2", " ", "d", "i", "a", "b", "e", "t", "e", "s", " ", "m", "e", "l", "l", "i", "t", "u", "s">>

d_Asthma == <<"A", "s", "t", "h", "m", "a">>

ch_Endocrine == <<"E", "n", "d", "o", "c", "r", "i", "n", "e">>

ch_Respiratory == <<"R", "e", "s", "p", "i", "r", "a", "t", "o", "r", "y">>

st_Included == <<"I", "n", "c", "l", "u", "d", "e", "d">>

st_Excluded == <<"E", "x", "c", "l", "u", "d", "e", "d">>

RowE119 ==
    [c |-> c_E119, c2 |-> c_E11, s |-> d_T2, l |-> d_T2long,
     ch |-> ch_Endocrine, st |-> st_Included]

\* a code to trim, and no long description
RowE11 ==
    [c |-> <<" ", "E", "1", "1", " ">>, c2 |-> c_E11, s |-> d_T2, l |-> NaN,
     ch |-> ch_Endocrine, st |-> st_Included]

RowJ45 ==
    [c |-> <<"J", "4", "5">>, c2 |-> <<"J", "4", "5">>, s |-> d_Asthma, l |-> d_Asthma,
     ch |-> ch_Respiratory, st |-> st_Excluded]

\* a code cell of blanks only
RowBlank ==
    [c |-> <<" ", " ", " ">>, c2 |-> <<"A", "\\", "d", "d", "9">>, s |-> d_T2, l |-> d_T2long,
     ch |-> ch_Endocrine, st |-> st_Included]

\* no code cell
RowMissing ==
    [c |-> NaN, c2 |-> NaN, s |-> d_Asthma, l |-> NaN,
     ch |-> ch_Respiratory, st |-> st_Excluded]

RowPool == {RowE119, RowE11, RowJ45, RowBlank, RowMissing}

\* the i-th row of a generated dataset: codes E01, J02, E03, ...
BulkRow(i) ==
    [c |-> <<IF i % 2 = 1 THEN "E" ELSE "J">> \o <<Digits[(i \div 10) + 1], Digits[(i % 10) + 1]>>,
     c2 |-> NaN,
     s |-> IF i % 3 = 0 THEN d_Asthma ELSE d_T2,
     l |-> NaN,
     ch |-> IF i % 3 = 0 THEN ch_Respiratory ELSE ch_Endocrine,
     st |-> IF i % 4 = 0 THEN st_Excluded ELSE st_Included]

\* the raw frame with these columns and rows
RawFrame(cols, rows) ==
    [headers |-> [j \in 1..Len(cols) |-> cols[j].name],
     rows |-> [i \in 1..Len(rows) |-> [j \in 1..Len(cols) |-> rows[i][cols[j].kind]]]]

SeqsUpTo(S, n) == UNION {[1..m -> S] : m \in 0..n}

\* every list of one to MaxCols different headers, over two rows
SchemaDataSets ==
    {RawFrame([j \in 1..Len(idx) |-> HeaderPool[idx[j]]], <<RowE119, RowBlank>>) :
        idx \in {s \in SeqsUpTo(1..Len(HeaderPool), MaxCols) :
                    /\ Len(s) >= 1
                    /\ \A a, b \in 1..Len(s) : a # b => s[a] # s[b]}}

\* every list of at most MaxRows rows under the usual headers
ContentDataSets == {RawFrame(FullHeaders, rows) : rows \in SeqsUpTo(RowPool, MaxRows)}

\* generated datasets of several pages
BulkDataSets ==
    {RawFrame(FullHeaders, [i \in 1..n |-> BulkRow(i)]) : n \in (MaxBulk - 5)..MaxBulk}

DataSets == SchemaDataSets \cup ContentDataSets \cup BulkDataSets

\* what the user types in "Search by code or diagnosis"
Queries ==
    { <<>>,
      <<" ", " ">>,
      <<"E", "1", "1">>,
      <<"a", "s", "t", "h", "m", "a">>,
      <<" ", "T", "y", "p", "e", " ", "2">>,
      <<"9", " ", "t", "y", "p", "e">>,
      <<"1", "9">>,
      <<"e", "n", "d", "o">>,
      <<"e", ".", "1">> }

\* "Code starts with": "All" and two of the letters A to Z
CodePrefixes == {str_All, <<"E">>, <<"J">>}

PageSizes == {MinPageSize, MinPageSize + PageSizeStep, DefaultPageSize}

DefaultParams ==
    [query |-> <<>>, code_prefix |-> str_All, status |-> str_All,
     page_size |-> DefaultPageSize]

NoView == [message |-> "none", related |-> <<>>]

NoAI ==
    [clicked |-> FALSE, row |-> 0, env |-> [getenv |-> None, secrets |-> None],
     response |-> [kind |-> "none", status |-> 0, body |-> <<>>], raised |-> FALSE, text |-> <<>>]

----------------------------------------------------------------------------
(* The application: the dataset is loaded once, and every interaction runs
   main from the top *)

InitWith(datasets) ==
    /\ pc = "start"
    /\ df_raw \in datasets
    /\ df = <<>>
    /\ params = DefaultParams
    /\ df_filtered = <<>>
    /\ total_pages = 1
    /\ page = 1
    /\ page_df = <<>>
    /\ view = NoView
    /\ ai = NoAI

Init == InitWith(DataSets)

\* df = load_icd10_data(), cached for the life of the process
Load ==
    /\ pc = "start"
    /\ df' = load_icd10_data(df_raw)
    /\ pc' = "ready"
    /\ UNCHANGED <<df_raw, params, df_filtered, total_pages, page, page_df, view, ai>>

\* what main shows for a page: the message, or per card the related codes
Render(filtered, shown) ==
    IF Len(shown) = 0 THEN [message |-> "no_codes", related |-> <<>>]
    ELSE [message |-> "cards",
          related |-> [i \in 1..Len(shown) |->
                          related_codes(filtered, shown[i].category, shown[i].code)]]

\* one run of main: the sidebar's values, the filters, the page chosen in
\* "Page" (1 to total_pages), the slice and the cards
MainWith(queries, prefixes, sizes) ==
    /\ pc = "ready"
    /\ \E query \in queries, prefix \in prefixes,
          status \in StatusOptions(df), page_size \in sizes :
          params' = [query |-> query, code_prefix |-> prefix, status |-> status,
                     page_size |-> page_size]
    /\ df_filtered' = apply_filters(df, params')
    /\ total_pages' = TotalPages(Len(df_filtered'), params'.page_size)
    /\ page' \in 1..total_pages'
    /\ page_df' = PageSlice(df_filtered', page', params'.page_size)
    /\ view' = Render(df_filtered', page_df')
    /\ pc' = "rendered"
    /\ UNCHANGED <<df_raw, df, ai>>

Main == MainWith(Queries, CodePrefixes, PageSizes)

\* the next interaction: the script starts again from the cached table
Rerun ==
    /\ pc = "rendered"
    /\ pc' = "ready"
    /\ params' = DefaultParams
    /\ df_filtered' = <<>>
    /\ total_pages' = 1
    /\ page' = 1
    /\ page_df' = <<>>
    /\ view' = NoView
    /\ ai' = NoAI
    /\ UNCHANGED <<df_raw, df>>

Next == Load \/ Main \/ Rerun

Spec == Init /\ [][Next]_vars

----------------------------------------------------------------------------
(* The "Learn about this condition" button of a card *)

k_secret == <<"p", "p", "l", "x", "-", "k", "e", "y">>

\* os.getenv("PPLX_API_KEY") and st.secrets.get("PPLX_API_KEY", None)
Envs ==
    { [getenv |-> None, secrets |-> Raises],
      [getenv |-> None, secrets |-> None],
      [getenv |-> <<>>, secrets |-> <<>>],
      [getenv |-> None, secrets |-> k_secret],
      [getenv |-> k_secret, secrets |-> Raises] }

NoBody ==
    [json |-> "invalid", choices |-> "missing", message |-> "missing",
     content |-> "missing", text |-> <<>>]

NoResponse == [kind |-> "none", status |-> 0, body |-> NoBody]

\* the bodies of a 200 response: no JSON, a JSON list, and the objects
\* that differ in "choices", "message" and "content"
Bodies ==
    {NoBody, [NoBody EXCEPT !.json = "list"]}
    \cup {[NoBody EXCEPT !.json = "dict", !.choices = c] :
             c \in {"missing", "null", "empty", "nondict"}}
    \cup {[NoBody EXCEPT !.json = "dict", !.choices = "item", !.message = m] :
             m \in {"missing", "null"}}
    \cup {[NoBody EXCEPT !.json = "dict", !.choices = "item", !.message = "dict",
                         !.content = c] : c \in {"missing", "null"}}
    \cup {[NoBody EXCEPT !.json = "dict", !.choices = "item", !.message = "dict",
                         !.content = "str", !.text = x] :
             x \in {<<>>, <<" ", " ">>, <<" ", "H", "i", "g", "h", " ", "b", "l", "o", "o", "d", " ", "s", "u", "g", "a", "r", ".", " ">>}}

\* what requests.post does: it raises (no network, a timeout), or answers
Responses ==
    {[kind |-> "exception", status |-> 0, body |-> NoBody]}
    \cup {[kind |-> "response", status |-> s, body |-> NoBody] : s \in {401, 500}}
    \cup {[kind |-> "response", status |-> 200, body |-> b] : b \in Bodies}

\* the button of one card of the page is clicked: the script runs again with
\* the same inputs and writes what call_perplexity_icd_explanation returns
ClickAI ==
    /\ pc = "rendered"
    /\ view.message = "cards"
    /\ ~ai.clicked
    /\ \E i \in 1..Len(page_df), env \in Envs, response \in Responses :
          LET out == call_perplexity_icd_explanation(page_df[i], env, response)
          IN  ai' = [clicked |-> TRUE, row |-> i, env |-> env, response |-> response,
                     raised |-> out.raised, text |-> out.text]
    /\ UNCHANGED <<pc, df_raw, df, params, df_filtered, total_pages, page, page_df, view>>

AIDataSets ==
    {RawFrame(FullHeaders, <<RowE119, RowJ45>>), RawFrame(FullHeaders, <<RowBlank>>)}

InitAI == InitWith(AIDataSets)

NextAI == Load \/ Main \/ Rerun \/ ClickAI

SpecAI == InitAI /\ [][NextAI]_vars

----------------------------------------------------------------------------
(* The pagination over every value of the "Codes per page" slider *)

\* rows of the largest generated dataset of the paged runs: one row more
\* than the largest page
MaxPagedRows == 51

\* generated datasets of every size from none to MaxPagedRows rows
PagedDataSets ==
    {RawFrame(FullHeaders, [i \in 1..n |-> BulkRow(i)]) : n \in 0..MaxPagedRows}

PagedQueries == {<<>>, <<"a", "s", "t", "h", "m", "a">>}

PagedPrefixes == {str_All, <<"E">>}

InitPaged == InitWith(PagedDataSets)

\* one run of main with any value of the slider
MainPaged == MainWith(PagedQueries, PagedPrefixes, SliderValues)

NextPaged == Load \/ MainPaged \/ Rerun

SpecPaged == InitPaged /\ [][NextPaged]_vars

----------------------------------------------------------------------------
(* Properties: the search *)

Rendered == pc = "rendered"

Loaded == pc # "start"

\* the text as apply_filters uses it
Query == Lower(Strip(params.query))

NoFacet == params.code_prefix = str_All /\ params.status = str_All

Codes(table) == [i \in 1..Len(table) |-> table[i].code]

\* the searched text of a record, from its fields
FieldsBlob(r) ==
    Lower(r.code \o <<" ">> \o r.short_description \o <<" ">> \o r.long_description
          \o <<" ">> \o r.chapter)

PassesFacets(r) ==
    /\ params.code_prefix = str_All \/ StartsWith(r.code, params.code_prefix)
    /\ params.status = str_All \/ r.status = params.status

FacetRows == SelectSeq(df, PassesFacets)

MatchesText(r) == RegexSearch(Query, FieldsBlob(r))

RECURSIVE IsSubsequence(_, _)
IsSubsequence(sub, s) ==
    IF Len(sub) = 0 THEN TRUE
    ELSE IF Len(s) = 0 THEN FALSE
    ELSE IF sub[1] = s[1] THEN IsSubsequence(Tail(sub), Tail(s))
    ELSE IsSubsequence(sub, Tail(s))

AsciiOrder == <<" ", ".", "0", "1", "2", "3", "4", "5", "6", "7", "8", "9", "A", "B", "C", "D", "E", "F", "G", "H", "I", "J", "K", "L", "M", "N", "O", "P", "Q", "R", "S", "T", "U", "V", "W", "X", "Y", "Z", "\\", "a", "b", "c", "d", "e", "f", "g", "h", "i", "j", "k", "l", "m", "n", "o", "p", "q", "r", "s", "t", "u", "v", "w", "x", "y", "z">>

CharRank(c) == CHOOSE i \in 1..Len(AsciiOrder) : AsciiOrder[i] = c

RECURSIVE LexLeq(_, _)
LexLeq(a, b) ==
    IF Len(a) = 0 THEN TRUE
    ELSE IF Len(b) = 0 THEN FALSE
    ELSE IF a[1] = b[1] THEN LexLeq(Tail(a), Tail(b))
    ELSE CharRank(a[1]) < CharRank(b[1])

IsWordChar(s, k) ==
    /\ k \in 1..Len(s)
    /\ \E i \in 1..Len(LowerLetters) :
          s[k] = LowerLetters[i] \/ s[k] = UpperLetters[i] \/ (i <= 10 /\ s[k] = Digits[i])

WholeWord(q, s) ==
    \E i \in 1..(Len(s) - Len(q) + 1) :
        /\ SubSeq(s, i, i + Len(q) - 1) = q
        /\ IsWordChar(s, i - 1) # IsWordChar(s, i)
        /\ IsWordChar(s, i + Len(q) - 1) # IsWordChar(s, i + Len(q))

\* the score of the ranked search the specification describes
RankScore(r, q) ==
    (IF Lower(r.code) = q THEN 120 ELSE 0)
    + (IF StartsWith(Lower(r.code), q) THEN 80 ELSE 0)
    + (IF WholeWord(q, Lower(r.short_description)) THEN 70 ELSE 0)
    + (IF IsSubstring(q, Lower(r.short_description)) THEN 50 ELSE 0)
    + (IF IsSubstring(q, Lower(r.long_description)) THEN 25 ELSE 0)
    + (IF r.category # NaN /\ IsSubstring(q, Lower(r.category)) THEN 15 ELSE 0)

ScenarioOneTable == Codes(df) = <<c_E119, c_E11>>

\* C1 as stated: with a text, the result is ordered by descending score and,
\* at equal score, by ascending lower-cased code; "E11" comes before "E119"
C1_RankedOrder ==
    (Rendered /\ Len(Query) > 0) =>
        /\ \A i, j \in 1..Len(df_filtered) :
              i < j =>
                  \/ RankScore(df_filtered[i], Query) > RankScore(df_filtered[j], Query)
                  \/ /\ RankScore(df_filtered[i], Query) = RankScore(df_filtered[j], Query)
                     /\ LexLeq(Lower(df_filtered[i].code), Lower(df_filtered[j].code))
        /\ (ScenarioOneTable /\ NoFacet /\ Query = Lower(c_E11)) =>
              Codes(df_filtered) = <<c_E11, c_E119>>

\* C1 amended: with a text, the result keeps the order of the table (no
\* score reorders it); for the table "E119", "E11" and the text "E11" both
\* match and "E119" stays first
C1_TableOrder ==
    (Rendered /\ Len(Query) > 0) =>
        /\ IsSubsequence(df_filtered, df)
        /\ (ScenarioOneTable /\ NoFacet /\ Query = Lower(c_E11)) =>
              Codes(df_filtered) = <<c_E119, c_E11>>

C1_Witness ==
    /\ Rendered
    /\ ScenarioOneTable
    /\ NoFacet
    /\ Query = Lower(c_E11)
    /\ Codes(df_filtered) = <<c_E119, c_E11>>
    /\ RankScore(df_filtered[1], Query) < RankScore(df_filtered[2], Query)

\* a text match as the specification describes it: a prefix of the code, or
\* inside one of short_description, long_description and category
FieldwiseMatch(r, q) ==
    \/ StartsWith(Lower(r.code), q)
    \/ IsSubstring(q, Lower(r.short_description))
    \/ IsSubstring(q, Lower(r.long_description))
    \/ r.category # NaN /\ IsSubstring(q, Lower(r.category))

InResult(r) == \E k \in 1..Len(df_filtered) : df_filtered[k] = r

C3_FacetAndText ==
    (Rendered /\ Len(Query) > 0 /\ ~NoFacet) =>
        /\ \A k \in 1..Len(df_filtered) :
              /\ params.code_prefix # str_All =>
                    StartsWith(Lower(df_filtered[k].code), Lower(params.code_prefix))
              /\ params.status # str_All => df_filtered[k].status = params.status
              /\ MatchesText(df_filtered[k])
        /\ df_filtered =
              PrefixFilter(StatusFilter(TextFilter(df, params.query), params.status),
                           params.code_prefix)

C3_Witness ==
    /\ Rendered
    /\ Len(Query) > 0
    /\ params.code_prefix # str_All
    /\ params.status # str_All
    /\ Len(df_filtered) > 0
    /\ Len(df_filtered) < Len(TextFilter(df, params.query))
    /\ Len(df_filtered) < Len(PrefixFilter(df, params.code_prefix))

\* C4: with an empty text, or blanks only, the result is exactly the records
\* that pass the facet filters, each once and in table order; with no facet
\* filter it is the whole table
C4_BrowseAll ==
    (Rendered /\ Len(Strip(params.query)) = 0) =>
        /\ df_filtered = FacetRows
        /\ NoFacet => df_filtered = df

C4_Witness ==
    /\ Rendered
    /\ Len(params.query) > 0
    /\ Len(Strip(params.query)) = 0
    /\ params.code_prefix # str_All
    /\ Len(df_filtered) > 0
    /\ Len(df_filtered) < Len(df)

\* C5: the page shown is exactly the records of the result at the positions
\* (page-1)*page_size up to page*page_size, cut at the end of the result, in
\* the result's order; 25 matches at 10 per page give 10 records on page 1
\* and the last 5 on page 3
C5_PageSlice ==
    Rendered =>
        LET n  == Len(df_filtered)
            lo == Min(n, (page - 1) * params.page_size)
            hi == Min(n, page * params.page_size)
        IN  /\ Len(page_df) = hi - lo
            /\ \A k \in 1..Len(page_df) : page_df[k] = df_filtered[lo + k]
            /\ (n = 25 /\ params.page_size = 10 /\ page = 1) => Len(page_df) = 10
            /\ (n = 25 /\ params.page_size = 10 /\ page = 3) => Len(page_df) = 5

C5_Witness ==
    /\ Rendered
    /\ Len(df_filtered) = 25
    /\ params.page_size = 10
    /\ page = 3
    /\ Len(page_df) = 5
    /\ page_df[5] = df_filtered[25]

----------------------------------------------------------------------------
(* Properties: the normalisation *)

code_col == find_column(df_raw.headers, code_keywords)

short_col == find_column(df_raw.headers, short_keywords)

long_col == find_column(df_raw.headers, long_keywords)

\* the raw cells under a header
RawCells(col) ==
    LET j == CHOOSE j \in 1..Len(df_raw.headers) : df_raw.headers[j] = col
    IN  [i \in 1..Len(df_raw.rows) |-> df_raw.rows[i][j]]

IsBlankCell(cell) == cell = NaN \/ Len(Strip(cell)) = 0

\* C6 as stated: no record of the table has an empty code; the raw rows whose
\* code cell is missing, empty or blank are dropped
C6_NoEmptyCode ==
    Loaded =>
        /\ \A i \in 1..Len(df) : df[i].code # NaN /\ Len(df[i].code) > 0
        /\ code_col # None =>
              Len(df) = Cardinality({i \in 1..Len(df_raw.rows) :
                                        ~IsBlankCell(RawCells(code_col)[i])})

HoldsKeyword(header, keyword) == IsSubstring(keyword, Lower(header))

HeaderIndexes == 1..Len(df_raw.headers)

\* the code column as the specification resolves it: the first header holding
\* "code" or "icd", else the first header
SpecCodeColumn ==
    LET hits == {i \in HeaderIndexes :
                    \/ HoldsKeyword(df_raw.headers[i], <<"c", "o", "d", "e">>)
                    \/ HoldsKeyword(df_raw.headers[i], <<"i", "c", "d">>)}
    IN  IF hits # {} THEN df_raw.headers[CHOOSE i \in hits : \A j \in hits : i <= j]
        ELSE df_raw.headers[1]

CodeColumnByCode ==
    LET hits == {i \in HeaderIndexes : HoldsKeyword(df_raw.headers[i], <<"c", "o", "d", "e">>)}
        first == CHOOSE i \in hits : \A j \in hits : i <= j
        same == {j \in HeaderIndexes : Lower(df_raw.headers[j]) = Lower(df_raw.headers[first])}
    IN  IF hits = {} THEN None
        ELSE df_raw.headers[CHOOSE j \in same : \A m \in same : m <= j]

C8_LongFallsBackToShort ==
    (Loaded /\ long_col = None) =>
        \A i \in 1..Len(df) : df[i].long_description = df[i].short_description

\* C8 amended: when no header matches the long_description keywords ("long
\* description", "long desc"), every record's long_description is empty
C8_LongEmpty ==
    (Loaded /\ long_col = None) =>
        \A i \in 1..Len(df) : df[i].long_description = <<>>

C8_Witness ==
    /\ Loaded
    /\ long_col = None
    /\ short_col # None
    /\ Len(df) > 0
    /\ df[1].short_description = d_T2
    /\ df[1].long_description = <<>>

FirstThree(code) == SubSeq(code, 1, Min(3, Len(code)))

\* C9 as stated: every record's category is the first 3 characters of its
\* code ("E119" gets "E11"), and the codes listed as related under a card are
\* exactly the other records whose code has the same first 3 characters
C9_CategoryIsCodePrefix ==
    /\ Loaded => \A i \in 1..Len(df) : df[i].category = FirstThree(df[i].code)
    /\ (Rendered /\ view.message = "cards") =>
          \A i \in 1..Len(page_df) :
              view.related[i] =
                  SelectSeq(df_filtered,
                            LAMBDA r : /\ FirstThree(r.code) = FirstThree(page_df[i].code)
                                       /\ r.code # page_df[i].code)

----------------------------------------------------------------------------
(* Properties: the AI explanation *)

ClickedRow == page_df[ai.row]

\* the request succeeds: a key, a 200 answer, a JSON object whose first
\* choice has a message with a content that is not blank
Succeeds ==
    /\ \/ ai.env.getenv # None /\ Len(ai.env.getenv) > 0
       \/ ai.env.secrets \notin {None, Raises, <<>>}
    /\ ai.response.kind = "response"
    /\ ai.response.status = 200
    /\ ai.response.body.json = "dict"
    /\ ai.response.body.choices = "item"
    /\ ai.response.body.message = "dict"
    /\ ai.response.body.content = "str"
    /\ Len(Strip(ai.response.body.text)) > 0

Mentions(text, field) == Len(field) > 0 /\ IsSubstring(field, text)

\* the text holds the record's code or one of its descriptions
BuiltFromRecord(text, r) ==
    \/ Mentions(text, r.code)
    \/ Mentions(text, r.short_description)
    \/ Mentions(text, r.long_description)

\* C10 as stated: whatever the outcome, the call returns a string and raises
\* nothing, and on every failure the string is a fallback built from the
\* record's own fields
C10_FallbackFromRecord ==
    ai.clicked =>
        /\ ~ai.raised
        /\ ~Succeeds => BuiltFromRecord(ai.text, ClickedRow)

ErrorExceptions ==
    {"ConnectionError", "JSONDecodeError", "AttributeError", "TypeError", "IndexError"}

\* C10 amended: whatever the outcome, the call returns a string and raises
\* nothing; on every failure the string is an error message fixed by the
\* failure alone (not configured, the status, no text, or "AI error:" with
\* the exception), the same for every record
C10_ErrorMessage ==
    ai.clicked =>
        /\ ~ai.raised
        /\ Succeeds => ai.text = Strip(ai.response.body.text)
        /\ ~Succeeds =>
                 \/ ai.text = MsgNotConfigured
                 \/ ai.response.kind = "response" /\ ai.text = MsgStatus(ai.response.status)
                 \/ ai.text = MsgNoText
                 \/ \E e \in ErrorExceptions : ai.text = MsgException(e)

C10_Witness ==
    /\ ai.clicked
    /\ ai.response.kind = "response"
    /\ ai.response.status = 200
    /\ ai.response.body.choices = "empty"
    /\ ai.text = MsgException("IndexError")
    /\ Len(ClickedRow.code) > 0
    /\ ~BuiltFromRecord(ai.text, ClickedRow)

----------------------------------------------------------------------------
(* Properties: the pages *)

\* the least number of pages of page_size records that hold n records
CeilDiv(n, page_size) ==
    CHOOSE k \in 0..n : k * page_size >= n /\ \A m \in 0..(k - 1) : m * page_size < n

\* the pages 1 to last of the result, one after the other
RECURSIVE PagesUpTo(_)
PagesUpTo(last) ==
    IF last = 0 THEN <<>>
    ELSE PagesUpTo(last - 1) \o PageSlice(df_filtered, last, params.page_size)

\* C11: for a result of n records and any page size of the slider (10, 15,
\* ... 50), total_pages is max(1, ceil(n / page_size)) and the page is one of
\* 1 to total_pages; the page shown is empty exactly when n = 0, and then
\* "No codes found" is shown and no card; when n > 0 every page that can be
\* chosen holds 1 to page_size records, and the pages 1 to total_pages hold
\* every record of the result once, in order
C11_Pages ==
    Rendered =>
        LET n == Len(df_filtered)
        IN  /\ params.page_size \in SliderValues
            /\ total_pages = Max(1, CeilDiv(n, params.page_size))
            /\ page \in 1..total_pages
            /\ Len(page_df) = 0 <=> n = 0
            /\ view.message = "no_codes" <=> n = 0
            /\ view.message = "cards" <=> n > 0
            /\ Len(view.related) = Len(page_df)
            /\ n > 0 =>
                  \A p \in 1..total_pages :
                      /\ Len(PageSlice(df_filtered, p, params.page_size)) >= 1
                      /\ Len(PageSlice(df_filtered, p, params.page_size)) <= params.page_size
            /\ PagesUpTo(total_pages) = df_filtered

\* a result of one record more than the largest page: the second and last
\* page holds that record
C11_Witness ==
    /\ Rendered
    /\ params.page_size = MaxPageSize
    /\ Len(df_filtered) = MaxPageSize + 1
    /\ total_pages = 2
    /\ page = 2
    /\ Len(page_df) = 1
    /\ page_df[1] = df_filtered[MaxPageSize + 1]
    /\ view.message = "cards"

====
